---- MODULE Spec2Model ----
(***************************************************************************)
(* The two notebooks of the repository as one state machine:               *)
(*   - auto-ml-forecasting-energy-demand-end2end.ipynb  ("energy")         *)
(*   - Predictive maintenance NASA sample.ipynb         ("maintenance")    *)
(* A state is the kernel's namespace (the notebook's global variables),    *)
(* the input file, and the position of the next cell to run.  One action   *)
(* is one code cell, run top to bottom ("Run All"); a cell that raises     *)
(* stops the run.                                                          *)
(*                                                                         *)
(* Spec runs the data, training and evaluation cells on every input file   *)
(* within the bounds; DeploySpec runs the whole notebooks, their Deploy    *)
(* sections and the deployed services included, on smaller files;          *)
(* CheckSpec runs the energy notebook's data cells on values that can be   *)
(* told apart.                                                             *)
(*                                                                         *)
(* A DataFrame is [cols |-> sequence of column labels,                     *)
(*                 rows |-> sequence of [idx |-> index label,              *)
(*                                       vals |-> [column -> value]]].     *)
(* A numpy matrix taken with .values is the same structure; its cols keep  *)
(* the labels of the columns the data came from.                           *)
(***************************************************************************)
EXTENDS Integers, Sequences, FiniteSets, TLC

(* ------------------------------ bounds -------------------------------- *)
\* rows of nyc_energy.csv
MaxRows == 3
\* rows of train_FD001.txt
MaxUnitRows == 3
\* cycles of an engine
MaxCycle == 2
\* sample counts the split's size arithmetic is evaluated on
MaxSamples == 40
\* rows of nyc_energy.csv in the runs that go on to the Deploy section
MaxDeployRows == 2
\* rows of a request posted to the regression service
MaxRequestRows == 2
\* test records in the runs that compare the clean-up pair by pair
MaxPairs == 3

(* ------------------------------ values -------------------------------- *)
\* np.nan, a float that is not a number; every other value is an integer >= 0
NaN == -1

isnan(v) == v = NaN

\* pandas parses the string 'YYYY-MM-DD' (and the csv field) to a Timestamp;
\* Timestamps compare chronologically
ToDatetime(y, m, d) == y * 10000 + m * 100 + d

\* the timeStamps of the file: the day before and the day of each cutover,
\* and a day after the last one
TimeStamps == { ToDatetime(2016, 12, 31), ToDatetime(2017, 1, 1),
                ToDatetime(2017, 2, 1), ToDatetime(2017, 3, 1) }

Demands == {NaN, 5}
Temps == {20}
Predictions == {NaN, 7}

NoFrame == [cols |-> <<>>, rows |-> <<>>]

Range(s) == { s[i] : i \in DOMAIN s }

SeqsUpTo(S, n) == UNION { [1..k -> S] : k \in 0..n }

(* --------------------------- DataFrame helpers ------------------------ *)
\* pd.read_csv: one row per line of the file, index labels 0..n-1
ReadCsv(cols, file) ==
  [cols |-> cols,
   rows |-> [i \in 1..Len(file) |-> [idx |-> i - 1, vals |-> file[i]]]]

\* a[mask]: the elements of a whose mask is true, in order
RECURSIVE MaskSelect(_, _)
MaskSelect(a, mask) ==
  IF a = <<>> THEN <<>>
  ELSE LET n == Len(a)
           front == MaskSelect(SubSeq(a, 1, n - 1), SubSeq(mask, 1, n - 1))
       IN  IF mask[n] THEN Append(front, a[n]) ELSE front

\* df[mask] for a boolean mask with one entry per row: the rows whose entry
\* is true, in order, index labels kept
BoolIndex(df, mask) ==
  [cols |-> df.cols, rows |-> MaskSelect(df.rows, mask)]

\* df[col] < v, df[col] >= v, df[col] == v: one boolean per row
Less(df, c, v) == [i \in 1..Len(df.rows) |-> df.rows[i].vals[c] < v]
GreaterEq(df, c, v) == [i \in 1..Len(df.rows) |-> df.rows[i].vals[c] >= v]
Equal(df, c, v) == [i \in 1..Len(df.rows) |-> df.rows[i].vals[c] = v]

\* df[col].values
Column(df, c) == [i \in 1..Len(df.rows) |-> df.rows[i].vals[c]]

\* faulty variant: the rows whose value in the column is missing are
\* dropped along with the column
PoppedDropNa(df, c) ==
  [cols |-> SelectSeq(df.cols, LAMBDA x : x # c),
   rows |-> SelectSeq([i \in 1..Len(df.rows) |->
                         [idx |-> df.rows[i].idx,
                          vals |-> [x \in (DOMAIN df.rows[i].vals) \ {c} |->
                                      df.rows[i].vals[x]],
                          na |-> df.rows[i].vals[c] = NaN]],
                      LAMBDA r : ~r.na)]

\* faulty variant: the column is read, not removed
PoppedKeeps(df, c) == df

\* the frame left behind by df.pop(col): the column is removed in place
Popped(df, c) ==
  [cols |-> SelectSeq(df.cols, LAMBDA x : x # c),
   rows |-> [i \in 1..Len(df.rows) |->
               [idx |-> df.rows[i].idx,
                vals |-> [x \in (DOMAIN df.rows[i].vals) \ {c} |->
                            df.rows[i].vals[x]]]]]

Indexes(df) == { df.rows[i].idx : i \in 1..Len(df.rows) }

(* ===================== energy demand notebook ========================= *)
EnergyCols == <<"timeStamp", "demand", "temp">>

EnergyRecords == [timeStamp : TimeStamps, demand : Demands, temp : Temps]

\* a nyc_energy.csv whose header has no 'demand' column
EnergyColsNoDemand == <<"timeStamp", "temp">>

EnergyRecordsNoDemand == [timeStamp : TimeStamps, temp : Temps]

CutoverTest == ToDatetime(2017, 2, 1)
\* faulty variant: the validation month starts a month late
CutoverValidOneMonthLate == ToDatetime(2017, 2, 1)

CutoverValid == ToDatetime(2017, 1, 1)

\* faulty variant: the train side taken with <=
TrainSideInclusive(df, cutover) ==
  BoolIndex(df, [i \in 1..Len(df.rows) |->
                  df.rows[i].vals["timeStamp"] <= cutover])

\* train = data[data['timeStamp'] < '2017-02-01']
TrainSide(df, cutover) ==
  BoolIndex(df, Less(df, "timeStamp", cutover))

\* faulty variant: the test side taken with >
TestSideStrict(df, cutover) ==
  BoolIndex(df, [i \in 1..Len(df.rows) |->
                  df.rows[i].vals["timeStamp"] > cutover])

\* test = data[data['timeStamp'] >= '2017-02-01']
TestSide(df, cutover) ==
  BoolIndex(df, GreaterEq(df, "timeStamp", cutover))

(* =================== predictive maintenance notebook ================= *)
\* names=['unit','cycle','os1',...,'sm21'] of pd.read_csv("train_FD001.txt")
MaintCols ==
  << "unit", "cycle", "os1", "os2", "os3",
     "sm1", "sm2", "sm3", "sm4", "sm5", "sm6", "sm7", "sm8", "sm9", "sm10",
     "sm11", "sm12", "sm13", "sm14", "sm15", "sm16", "sm17", "sm18", "sm19",
     "sm20", "sm21" >>

\* the engines of the file: two of them
Units == {1, 2}
Cycles == 1..MaxCycle

\* one line of train_FD001.txt; the settings and sensor readings are not
\* read by any cell, they are carried along as 0
MaintRecords ==
  { [c \in Range(MaintCols) |->
       IF c = "unit" THEN u ELSE IF c = "cycle" THEN cy ELSE 0] :
    u \in Units, cy \in Cycles }

SetMax(S) == CHOOSE m \in S : \A x \in S : x <= m

\* faulty variant: the label counted from one cycle past the last
assignrulOffByOne(df) ==
  LET maxi == SetMax(Range(Column(df, "cycle"))) + 1
  IN  [cols |-> Append(df.cols, "rul"),
       rows |-> [i \in 1..Len(df.rows) |->
                   [idx |-> df.rows[i].idx,
                    vals |-> [x \in (DOMAIN df.rows[i].vals) \cup {"rul"} |->
                                IF x = "rul"
                                THEN maxi - df.rows[i].vals["cycle"]
                                ELSE df.rows[i].vals[x]]]]]

\* def assignrul(df): maxi = df['cycle'].max(); df['rul'] = maxi - df['cycle']
assignrul(df) ==
  LET maxi == SetMax(Range(Column(df, "cycle")))
  IN  [cols |-> IF "rul" \in Range(df.cols) THEN df.cols
                ELSE Append(df.cols, "rul"),
       rows |-> [i \in 1..Len(df.rows) |->
                   [idx |-> df.rows[i].idx,
                    vals |-> [x \in (DOMAIN df.rows[i].vals) \cup {"rul"} |->
                                IF x = "rul"
                                THEN maxi - df.rows[i].vals["cycle"]
                                ELSE df.rows[i].vals[x]]]]]

\* faulty variant: no grouping: the function sees the whole frame
GroupOfAll(df, key, g) == df

\* the rows of df whose key column equals g
GroupOf(df, key, g) == BoolIndex(df, Equal(df, key, g))

RowWithIdx(df, idx) == CHOOSE r \in Range(df.rows) : r.idx = idx

\* df.groupby(key).apply(assignrul): assignrul returns its group with the
\* index unchanged, so the results are concatenated and put back in df's row
\* order.  A frame without rows has no groups and assignrul is never called.
GroupByApply(df, key) ==
  IF df.rows = <<>> THEN df
  ELSE [cols |-> assignrul(GroupOf(df, key, df.rows[1].vals[key])).cols,
        rows |-> [i \in 1..Len(df.rows) |->
                    RowWithIdx(assignrul(GroupOf(df, key,
                                                 df.rows[i].vals[key])),
                               df.rows[i].idx)]]

Min(a, b) == IF a <= b THEN a ELSE b

\* df.iloc[:, lo:hi].values: the columns at positions lo..hi-1 (from 0), as
\* a matrix whose rows are numbered by position
Iloc(df, lo, hi) ==
  LET cs == SubSeq(df.cols, lo + 1, Min(hi, Len(df.cols)))
  IN  [cols |-> cs,
       rows |-> [i \in 1..Len(df.rows) |->
                   [idx |-> i - 1,
                    vals |-> [x \in Range(cs) |-> df.rows[i].vals[x]]]]]

\* m.flatten(): the matrix's values row by row
RECURSIVE Flatten(_)
Flatten(m) ==
  IF m.rows = <<>> THEN <<>>
  ELSE LET n == Len(m.rows)
       IN  Flatten([cols |-> m.cols, rows |-> SubSeq(m.rows, 1, n - 1)])
           \o [j \in 1..Len(m.cols) |-> m.rows[n].vals[m.cols[j]]]

\* train_test_split(..., test_size=0.3, random_state=100)
TestSizeNum == 3
TestSizeDen == 10
RandomSeed == 100

\* faulty variant: the fraction taken for the train side
NTestOfTrainFraction(n) ==
  ((TestSizeDen - TestSizeNum) * n + TestSizeDen - 1) \div TestSizeDen

\* n_test = ceil(test_size * n_samples)
NTest(n) == (TestSizeNum * n + TestSizeDen - 1) \div TestSizeDen

\* n_train = n_samples - n_test
NTrain(n) == n - NTest(n)

\* np.random.RandomState(seed): a generator whose state is fixed by the seed.
\* numpy's Mersenne Twister is abstracted by a small congruential generator;
\* what the notebook relies on is that its output is a function of the state.
RandomState(seed) == seed % 64

RngNext(s) == (5 * s + 3) % 64

Swap(p, i, j) == [p EXCEPT ![i] = p[j], ![j] = p[i]]

\* numpy's shuffle: for i from the last position down, swap position i with
\* a drawn position j <= i
RECURSIVE Shuffle(_, _, _)
Shuffle(p, i, s) ==
  IF i <= 1 THEN p
  ELSE Shuffle(Swap(p, i, (s % i) + 1), i - 1, RngNext(s))

\* rng.permutation(n), positions counted from 1
Permutation(s, n) == Shuffle([i \in 1..n |-> i], n, s)

\* faulty variant: random_state left out: the global generator is drawn from
SplitGeneratorGlobal(seed, global) == global

\* the generator train_test_split draws from: random_state is an int, so a
\* fresh RandomState(random_state); numpy's global generator is not used
SplitGenerator(seed, global) == RandomState(seed)

\* ind_test = permutation[:n_test]
IndTest(perm, n) == SubSeq(perm, 1, NTest(n))

\* faulty variant: the train slice starts one position early
IndTrainOverlap(perm, n) == SubSeq(perm, NTest(n), NTest(n) + NTrain(n) - 1)

\* ind_train = permutation[n_test:(n_test + n_train)]
IndTrain(perm, n) == SubSeq(perm, NTest(n) + 1, NTest(n) + NTrain(n))

\* a[ind]: the rows of a matrix at the given positions
TakeRows(m, ind) ==
  [cols |-> m.cols, rows |-> [k \in 1..Len(ind) |-> m.rows[ind[k]]]]

\* y[ind]
Take(y, ind) == [k \in 1..Len(ind) |-> y[ind[k]]]

\* pd.DataFrame(matrix): a fresh index 0..n-1 (column labels become
\* positions; cols keeps the name of the column each position came from)
DataFrame(m) ==
  [cols |-> m.cols,
   rows |-> [i \in 1..Len(m.rows) |-> [idx |-> i - 1, vals |-> m.rows[i].vals]]]

NoInd == [train |-> <<>>, test |-> <<>>]

NoSplit == [done |-> FALSE, ind |-> NoInd,
            X_train |-> NoFrame, X_test |-> NoFrame,
            y_train |-> <<>>, y_test |-> <<>>]

VARIABLES
  notebook,      \* which notebook this kernel runs
  pc,            \* the next cell
  rerun,         \* TRUE in the second run of the notebook (Restart & Run All)
  np_random,     \* numpy's global generator state, seeded at kernel start
  error,         \* the exception that stopped the run, "" when none
  model_outputs, \* the values the model the service fits can predict
  header,        \* the input file's header line, <<>> when it has none
  csv,           \* the input file's records
  data, train, test, train_new,
  X_train, X_valid, X_test,
  y_train, y_valid, y_test, y_pred,
  automl_config,
  split_ind,     \* the index arrays train_test_split drew (its locals)
  prev_split,    \* what the split cell produced in the previous run
  model_id,      \* local_run.model_id, "" until the model is registered
  script,        \* the scoring script file on disk
  image,         \* the container image built in the workspace
  service,       \* the web service deployed in the workspace
  request,       \* what was last sent to the service's run
  response       \* what the service's run gave to the last request

vars == << notebook, pc, rerun, np_random, error, model_outputs, header, csv,
           data, train, test,
           train_new, X_train, X_valid, X_test, y_train, y_valid, y_test,
           y_pred, automl_config, split_ind, prev_split,
           model_id, script, image, service, request, response >>

\* the state of the Deploy section of a notebook
deployment == << model_id, script, image, service, request, response >>

\* the last exchange with the service
call == << request, response >>

\* the parts of the state no cell assigns
kernel == << notebook, rerun, np_random, model_outputs, header, csv,
            prev_split >>

NoConfig == [task |-> "", time_column_name |-> "",
             X |-> NoFrame, y |-> <<>>, X_valid |-> NoFrame, y_valid |-> <<>>]

\* no scoring script written, no image built, no service deployed, no
\* request sent or answered
NoScript == <<>>
NoImage == [script |-> NoScript, models |-> {}]
NoService == [state |-> "None", script |-> NoScript, model |-> ""]
NoRequest == [sent |-> FALSE]
NoResponse == [kind |-> "none", key |-> "", items |-> <<>>, message |-> ""]

\* the cells of a notebook's Deploy section, and the end of the notebook
DeploySection ==
  { "register_model", "write_script", "substitute", "create_image", "deploy",
    "test_service", "delete_service", "done" }

\* a fresh kernel: nothing is bound
Namespace0 ==
  /\ error = ""
  /\ data = NoFrame /\ train = NoFrame /\ test = NoFrame
  /\ train_new = NoFrame
  /\ X_train = NoFrame /\ X_valid = NoFrame /\ X_test = NoFrame
  /\ y_train = <<>> /\ y_valid = <<>> /\ y_test = <<>> /\ y_pred = <<>>
  /\ automl_config = NoConfig
  /\ split_ind = NoInd
  /\ model_id = ""
  /\ request = NoRequest
  /\ response = NoResponse

\* numpy seeds its global generator from the system when it is imported:
\* two of the states it can start in.  No cell of the energy notebook draws
\* a random number, so its generator is left at one value.
Entropy(nb) == IF nb = "maintenance" THEN {0, 1} ELSE {0}

\* nyc_energy.csv starts with a header line, train_FD001.txt has none
Headers(nb) ==
  IF nb = "energy" THEN {EnergyCols, EnergyColsNoDemand} ELSE {<<>>}

\* the files of up to n (energy) or m (maintenance) records
Files(nb, h, n, m) ==
  IF nb = "maintenance" THEN SeqsUpTo(MaintRecords, m)
  ELSE IF h = EnergyCols THEN SeqsUpTo(EnergyRecords, n)
  ELSE SeqsUpTo(EnergyRecordsNoDemand, n)

FirstCell(nb) == IF nb = "energy" THEN "read_csv" ELSE "read_train"

Init ==
  /\ notebook \in {"energy", "maintenance"}
  /\ pc = FirstCell(notebook)
  /\ rerun = FALSE
  /\ np_random \in Entropy(notebook)
  /\ model_outputs = Predictions
  /\ header \in Headers(notebook)
  /\ csv \in Files(notebook, header, MaxRows, MaxUnitRows)
  /\ prev_split = NoSplit
  /\ script = NoScript
  /\ image = NoImage
  /\ service = NoService
  /\ Namespace0

(* ------------------------ energy notebook cells ----------------------- *)
\* data = pd.read_csv("nyc_energy.csv", parse_dates=['timeStamp'])
E_ReadCsv ==
  /\ notebook = "energy" /\ pc = "read_csv"
  /\ data' = ReadCsv(header, csv)
  /\ pc' = "split_train_test"
  /\ UNCHANGED << kernel, deployment, error, train, test, train_new, X_train, X_valid,
                  X_test, y_train, y_valid, y_test, y_pred, automl_config,
                  split_ind >>

\* train = data[... < '2017-02-01'] ; test = data[... >= '2017-02-01']
E_SplitTrainTest ==
  /\ notebook = "energy" /\ pc = "split_train_test"
  /\ train' = TrainSide(data, CutoverTest)
  /\ test' = TestSide(data, CutoverTest)
  /\ pc' = "prepare_test"
  /\ UNCHANGED << kernel, deployment, error, data, train_new, X_train, X_valid, X_test,
                  y_train, y_valid, y_test, y_pred, automl_config, split_ind >>

\* df.pop(col) raises KeyError when df has no column col
KeyErrorDemand == "KeyError: 'demand'"

HasColumn(df, c) == c \in Range(df.cols)

\* faulty variant: a missing column is answered with a default, NaN for
\* every row, as dict.pop(key, default) would
PopWithDefault(df, c) ==
  IF HasColumn(df, c)
  THEN [raised |-> FALSE, values |-> Column(df, c), frame |-> Popped(df, c)]
  ELSE [raised |-> FALSE, values |-> [i \in 1..Len(df.rows) |-> NaN],
        frame |-> df]

\* df.pop(c): the column's values, the frame without the column; KeyError,
\* and the frame as it was, when df has no column c
Pop(df, c) ==
  IF HasColumn(df, c)
  THEN [raised |-> FALSE, values |-> Column(df, c), frame |-> Popped(df, c)]
  ELSE [raised |-> TRUE, values |-> <<>>, frame |-> df]

\* y_test = test.pop('demand').values ; X_test = test
\* pop is the cell's first call: when it raises, nothing has been assigned
E_PrepareTest ==
  /\ notebook = "energy" /\ pc = "prepare_test"
  /\ LET popped == Pop(test, "demand")
     IN  IF ~popped.raised
         THEN /\ y_test' = popped.values
              /\ test' = popped.frame
              /\ X_test' = test'
              /\ pc' = "split_train_valid"
              /\ UNCHANGED error
         ELSE /\ error' = KeyErrorDemand
              /\ pc' = "raised"
              /\ UNCHANGED << test, X_test, y_test >>
  /\ UNCHANGED << kernel, deployment, data, train, train_new, X_train,
                  X_valid, y_train, y_valid, y_pred, automl_config,
                  split_ind >>

\* X_train = train[... < '2017-01-01'] ; X_valid = train[... >= '2017-01-01']
\* y_train = X_train.pop('demand').values ; y_valid = X_valid.pop('demand').values
\* (a pop that raises leaves X_train and X_valid as the two sides of train)
E_SplitTrainValid ==
  /\ notebook = "energy" /\ pc = "split_train_valid"
  /\ LET pop_train == Pop(TrainSide(train, CutoverValid), "demand")
         pop_valid == Pop(TestSide(train, CutoverValid), "demand")
     IN  /\ X_train' = pop_train.frame
         /\ X_valid' = pop_valid.frame
         /\ IF ~pop_train.raised /\ ~pop_valid.raised
            THEN /\ y_train' = pop_train.values
                 /\ y_valid' = pop_valid.values
                 /\ pc' = "automl_config"
                 /\ UNCHANGED error
            ELSE /\ error' = KeyErrorDemand
                 /\ pc' = "raised"
                 /\ UNCHANGED << y_train, y_valid >>
  /\ UNCHANGED << kernel, deployment, data, train, test, train_new, X_test,
                  y_test, y_pred, automl_config, split_ind >>

\* automl_config = AutoMLConfig(task='forecasting', X=X_train, y=y_train,
\*                              X_valid=X_valid, y_valid=y_valid,
\*                              time_column_name='timeStamp', ...)
E_AutoMLConfig ==
  /\ notebook = "energy" /\ pc = "automl_config"
  /\ automl_config' = [task |-> "forecasting",
                       time_column_name |-> "timeStamp",
                       X |-> X_train, y |-> y_train,
                       X_valid |-> X_valid, y_valid |-> y_valid]
  /\ pc' = "submit"
  /\ UNCHANGED << kernel, deployment, error, data, train, test, train_new, X_train,
                  X_valid, X_test, y_train, y_valid, y_test, y_pred,
                  split_ind >>

\* local_run = experiment.submit(automl_config) ; local_run.get_output()
E_Submit ==
  /\ notebook = "energy" /\ pc = "submit"
  /\ pc' = "predict"
  /\ UNCHANGED << kernel, deployment, error, data, train, test, train_new, X_train,
                  X_valid, X_test, y_train, y_valid, y_test, y_pred,
                  automl_config, split_ind >>

\* y_pred = fitted_model.predict(X_test): the fitted model belongs to the
\* service; its output is a sequence of numbers or NaN, one per row of
\* X_test or of any other length (up to one more than the rows)
E_Predict ==
  /\ notebook = "energy" /\ pc = "predict"
  /\ y_pred' \in SeqsUpTo(model_outputs, Len(X_test.rows) + 1)
  /\ pc' = "check_data"
  /\ UNCHANGED << kernel, deployment, error, data, train, test, train_new, X_train,
                  X_valid, X_test, y_train, y_valid, y_test, automl_config,
                  split_ind >>

\* if len(y_test) != len(y_pred): raise ValueError(...)
LengthMismatch(yt, yp) == Len(yt) # Len(yp)

\* faulty variant: the emptiness branch left out
IsEmptyNever(yt) == FALSE

\* elif len(y_test) == 0: raise ValueError(...)
IsEmpty(yt) == Len(yt) = 0

\* faulty variant: the mask looks at y_test only
KeepTestOnly(yt_f, yp_f) == [i \in 1..Len(yt_f) |-> ~isnan(yt_f[i])]

\* ~(np.isnan(y_test_f) | np.isnan(y_pred_f))
Keep(yt_f, yp_f) == [i \in 1..Len(yt_f) |-> ~(isnan(yt_f[i]) \/ isnan(yp_f[i]))]

\* y_test = y_test_f[~(isnan(y_test_f) | isnan(y_pred_f))]
FilteredTest(yt_f, yp_f) == MaskSelect(yt_f, Keep(yt_f, yp_f))

\* faulty variant: y_pred filtered by its own NaNs only
FilteredPredOwnMask(yt_f, yp_f) ==
  MaskSelect(yp_f, [i \in 1..Len(yp_f) |-> ~isnan(yp_f[i])])

\* y_pred = y_pred_f[~(isnan(y_test_f) | isnan(y_pred_f))]
FilteredPred(yt_f, yp_f) == MaskSelect(yp_f, Keep(yt_f, yp_f))

\* the "Check Data" cell
E_CheckData ==
  /\ notebook = "energy" /\ pc = "check_data"
  /\ IF LengthMismatch(y_test, y_pred)
     THEN /\ error' = "ValueError: not equal length"
          /\ pc' = "raised"
          /\ UNCHANGED << y_test, y_pred >>
     ELSE IF IsEmpty(y_test)
     THEN /\ error' = "ValueError: empty"
          /\ pc' = "raised"
          /\ UNCHANGED << y_test, y_pred >>
     ELSE /\ y_test' = FilteredTest(y_test, y_pred)
          /\ y_pred' = FilteredPred(y_test, y_pred)
          /\ pc' = "metrics"
          /\ UNCHANGED error
  /\ UNCHANGED << kernel, deployment, data, train, test, train_new, X_train, X_valid,
                  X_test, y_train, y_valid, automl_config, split_ind >>

\* mean_squared_error(y_test, y_pred), mean_absolute_error, r2_score, plot.
\* scikit-learn's metrics validate their arguments and raise ValueError on
\* an array without samples.
E_Metrics ==
  /\ notebook = "energy" /\ pc = "metrics"
  /\ IF Len(y_test) = 0
     THEN /\ error' = "ValueError: Found array with 0 sample(s)"
          /\ pc' = "raised"
     ELSE /\ pc' = "register_model"
          /\ UNCHANGED error
  /\ UNCHANGED << kernel, deployment, data, train, test, train_new, X_train,
                  X_valid, X_test, y_train, y_valid, y_test, y_pred,
                  automl_config, split_ind >>

(* --------------------- maintenance notebook cells --------------------- *)
\* train = pd.read_csv("train_FD001.txt", ..., names=[...])
M_ReadTrain ==
  /\ notebook = "maintenance" /\ pc = "read_train"
  /\ train' = ReadCsv(MaintCols, csv)
  /\ pc' = "assignrul"
  /\ UNCHANGED << kernel, deployment, error, data, test, train_new, X_train, X_valid,
                  X_test, y_train, y_valid, y_test, y_pred, automl_config,
                  split_ind >>

\* train_new = train.groupby('unit').apply(assignrul)
M_AssignRul ==
  /\ notebook = "maintenance" /\ pc = "assignrul"
  /\ train_new' = GroupByApply(train, "unit")
  /\ pc' = "create_training_data"
  /\ UNCHANGED << kernel, deployment, error, data, train, test, X_train, X_valid,
                  X_test, y_train, y_valid, y_test, y_pred, automl_config,
                  split_ind >>

\* faulty variant: the slice starts at column 1 and keeps the cycle number
FeatureMatrixFromCycle(df) == Iloc(df, 1, 26)

\* X_train = train_new.iloc[:,2:26].values
FeatureMatrix(df) == Iloc(df, 2, 26)

\* faulty variant: the target taken from column 1, the cycle number
TargetVectorOfCycle(df) == Flatten(Iloc(df, 1, 2))

\* y_train = train_new.iloc[:,26:27].values.astype(int).flatten()
TargetVector(df) == Flatten(Iloc(df, 26, 27))

M_CreateTrainingData ==
  /\ notebook = "maintenance" /\ pc = "create_training_data"
  /\ X_train' = FeatureMatrix(train_new)
  /\ y_train' = TargetVector(train_new)
  /\ pc' = "train_test_split"
  /\ UNCHANGED << kernel, deployment, error, data, train, test, train_new, X_valid,
                  X_test, y_valid, y_test, y_pred, automl_config, split_ind >>

\* X_train, X_test, y_train, y_test = train_test_split(X_train, y_train,
\*     test_size=0.3, random_state=100)
\* X_train = pd.DataFrame(X_train) ; X_test = pd.DataFrame(X_test)
M_TrainTestSplit ==
  /\ notebook = "maintenance" /\ pc = "train_test_split"
  /\ Len(X_train.rows) >= 1
  /\ LET n == Len(X_train.rows)
         perm == Permutation(SplitGenerator(RandomSeed, np_random), n)
     IN  /\ split_ind' = [train |-> IndTrain(perm, n), test |-> IndTest(perm, n)]
         /\ X_train' = DataFrame(TakeRows(X_train, IndTrain(perm, n)))
         /\ X_test' = DataFrame(TakeRows(X_train, IndTest(perm, n)))
         /\ y_train' = Take(y_train, IndTrain(perm, n))
         /\ y_test' = Take(y_train, IndTest(perm, n))
  /\ pc' = "automl_config"
  /\ UNCHANGED << kernel, deployment, error, data, train, test, train_new, X_valid,
                  y_valid, y_pred, automl_config >>

\* train_test_split raises ValueError when there is no sample, and (in the
\* scikit-learn releases that check it) when the train set would be empty
M_TrainTestSplitRaises ==
  /\ notebook = "maintenance" /\ pc = "train_test_split"
  /\ NTrain(Len(X_train.rows)) = 0
  /\ error' = "ValueError: train set will be empty"
  /\ pc' = "raised"
  /\ UNCHANGED << kernel, deployment, data, train, test, train_new, X_train, X_valid,
                  X_test, y_train, y_valid, y_test, y_pred, automl_config,
                  split_ind >>

\* Automl_config = AutoMLConfig(task='regression', X=X_train, y=y_train, ...)
M_AutoMLConfig ==
  /\ notebook = "maintenance" /\ pc = "automl_config"
  /\ automl_config' = [task |-> "regression", time_column_name |-> "",
                       X |-> X_train, y |-> y_train,
                       X_valid |-> NoFrame, y_valid |-> <<>>]
  /\ pc' = "submit"
  /\ UNCHANGED << kernel, deployment, error, data, train, test, train_new, X_train,
                  X_valid, X_test, y_train, y_valid, y_test, y_pred,
                  split_ind >>

\* local_run = experiment.submit(Automl_config) ; local_run.get_output()
M_Submit ==
  /\ notebook = "maintenance" /\ pc = "submit"
  /\ pc' = "register_model"
  /\ UNCHANGED << kernel, deployment, error, data, train, test, train_new, X_train,
                  X_valid, X_test, y_train, y_valid, y_test, y_pred,
                  automl_config, split_ind >>

(* ------------------------- the scoring scripts ------------------------ *)
\* the placeholder the scoring scripts are written with
Placeholder == "<<modelid>>"

\* the identifiers the workspace can give the registered model
ModelIds == {"AutoML0a1b2c3d4best", "AutoML5e6f7a8b9best"}

\* %%writefile score_energy_demand.py: the file's name, the model name its
\* init() asks Model.get_model_path for, and the signature of its run
ScoreEnergyDemandPy ==
  << "score_energy_demand.py", "init: Model.get_model_path(model_name=",
     Placeholder, ")", "run(timestamp,precip,temp)" >>

\* %%writefile score.py
ScorePy ==
  << "score.py", "init: Model.get_model_path(", Placeholder, ")",
     "run(raw_data)" >>

\* the model name a script's init() loads
ModelNameOf(text) == text[3]

\* what a run gives back: a JSON text (json.dumps of a list or of a dict
\* with one key), or an exception that leaves run
JsonArray(items) ==
  [kind |-> "array", key |-> "", items |-> items, message |-> ""]

ResultObject(items) ==
  [kind |-> "object", key |-> "result", items |-> items, message |-> ""]

ErrorObject(msg) ==
  [kind |-> "object", key |-> "error", items |-> <<>>, message |-> msg]

Raises(msg) ==
  [kind |-> "exception", key |-> "", items |-> <<>>, message |-> msg]

\* the fitted model's prediction for one feature vector
FittedModel(vec) == 7

\* the columns the regression model was fitted on
NFeatures == Len(MaintCols) - 2

\* a request body of score.py: not JSON at all, a JSON object without the
\* key 'data', or {"data": rows}
NotJson == [json |-> FALSE, has_data |-> FALSE, data |-> <<>>]
NoDataKey == [json |-> TRUE, has_data |-> FALSE, data |-> <<>>]
Body(rows) == [json |-> TRUE, has_data |-> TRUE, data |-> rows]

RECURSIVE Concat(_)
Concat(rows) ==
  IF rows = <<>> THEN <<>> ELSE Head(rows) \o Concat(Tail(rows))

\* np.array(rows): a k-by-n matrix when the rows have one length (ragged
\* rows give an array of objects)
Ragged(rows) == \E i, j \in DOMAIN rows : Len(rows[i]) # Len(rows[j])

\* m.reshape(1, -1): the one row that holds all the values of m
Reshape1(rows) == << Concat(rows) >>

\* model.predict(data): one prediction per row of data; scikit-learn raises
\* ValueError when a row is not NFeatures numbers
Predict(matrix) ==
  IF \A i \in DOMAIN matrix : Len(matrix[i]) = NFeatures
  THEN [raised |-> FALSE,
        y_hat |-> [i \in DOMAIN matrix |-> FittedModel(matrix[i])]]
  ELSE [raised |-> TRUE, y_hat |-> <<>>]

\* score.py
\*   def run(raw_data):
\*       data = (np.array(json.loads(raw_data)['data'])).reshape(1,-1)
\*       y_hat = model.predict(data)
\*       return json.dumps(y_hat.tolist())
ScoreRun(raw_data) ==
  IF ~raw_data.json THEN Raises("JSONDecodeError")
  ELSE IF ~raw_data.has_data THEN Raises("KeyError: 'data'")
  ELSE IF Ragged(raw_data.data) THEN Raises("ValueError")
  ELSE LET y_hat == Predict(Reshape1(raw_data.data))
       IN  IF y_hat.raised THEN Raises("ValueError")
           ELSE JsonArray(y_hat.y_hat)

\* json.dumps(v) raises TypeError for a value that is a set
JsonDumps(v) ==
  IF v.type = "set"
  THEN [raised |-> TRUE,
        message |-> "Object of type 'set' is not JSON serializable"]
  ELSE [raised |-> FALSE, message |-> ""]

\* the names score_energy_demand.py binds at module level
ScoreEnergyDemandNames ==
  {"pickle", "json", "np", "azureml", "joblib", "Model", "init", "run"}

\* score_energy_demand.py
\*   def run(timestamp,precip,temp):
\*       try:
\*           rawdata = json.dumps({timestamp, precip, temp})
\*           data = json.loads(rawdata)
\*           data_arr = numpy.array(data)
\*           result = model.predict(data_arr)
\*       except Exception as e:
\*           result = str(e)
\*           return json.dumps({"error": result})
\*       return json.dumps({"result":result.tolist()})
EnergyRun(timestamp, precip, temp) ==
  LET rawdata == JsonDumps([type |-> "set",
                            elems |-> {timestamp, precip, temp}])
  IN  IF rawdata.raised THEN ErrorObject(rawdata.message)
      ELSE IF "numpy" \notin ScoreEnergyDemandNames
      THEN ErrorObject("name 'numpy' is not defined")
      ELSE ResultObject(<< FittedModel(<< timestamp, precip, temp >>) >>)

(* ------------------------- the Deploy sections ------------------------ *)
\* the names of the data cells, which no cell of a Deploy section assigns
frames == << data, train, test, train_new, X_train, X_valid, X_test,
            y_train, y_valid, y_test, y_pred, automl_config, split_ind >>

\* faulty variant: the text is written back as it was read
ReplaceNothing(content, old, new) == content

\* content.replace(old, new) on the script's text
Replace(content, old, new) ==
  [i \in DOMAIN content |-> IF content[i] = old THEN new ELSE content[i]]

\* the image built from the script file and the registered model
BuildImage(text, id) == [script |-> text, models |-> {id}]

\* the container starts and runs the script's init(): Model.get_model_path
\* finds the models the image was built with, and raises for any other name
StartService(img) ==
  IF ModelNameOf(img.script) \in img.models
  THEN [state |-> "Healthy", script |-> img.script,
        model |-> ModelNameOf(img.script)]
  ELSE [state |-> "Failed", script |-> img.script, model |-> ""]

\* model = local_run.register_model(...): the workspace names the model
E_RegisterModel ==
  /\ notebook = "energy" /\ pc = "register_model"
  /\ model_id' \in ModelIds
  /\ pc' = "write_script"
  /\ UNCHANGED << kernel, frames, error, script, image, service, call >>

\* %%writefile score_energy_demand.py
E_WriteScript ==
  /\ notebook = "energy" /\ pc = "write_script"
  /\ script' = ScoreEnergyDemandPy
  /\ pc' = "substitute"
  /\ UNCHANGED << kernel, frames, error, model_id, image, service, call >>

\* cefw.write(content.replace('<<modelid>>', local_run.model_id))
E_Substitute ==
  /\ notebook = "energy" /\ pc = "substitute"
  /\ script' = Replace(script, Placeholder, model_id)
  /\ pc' = "create_image"
  /\ UNCHANGED << kernel, frames, error, model_id, image, service, call >>

\* image = Image.create(name=..., models=[model], image_config=image_config)
E_CreateImage ==
  /\ notebook = "energy" /\ pc = "create_image"
  /\ image' = BuildImage(script, model_id)
  /\ pc' = "deploy"
  /\ UNCHANGED << kernel, frames, error, model_id, script, service,
                  call >>

\* aci_service = Webservice.deploy_from_image(image=image, ...)
\* aci_service.wait_for_deployment(True): raises when the service failed.
\* This is the notebook's last cell.
E_Deploy ==
  /\ notebook = "energy" /\ pc = "deploy"
  /\ service' = StartService(image)
  /\ IF service'.state = "Healthy"
     THEN pc' = "done" /\ UNCHANGED error
     ELSE pc' = "raised" /\ error' = "WebserviceException"
  /\ UNCHANGED << kernel, frames, model_id, script, image, call >>

\* the inputs a client sends to the forecast service
EnergyRequests ==
  [timestamp : {"2017-02-01 00:00:00", "tomorrow"}, precip : {"0.0"},
   temp : {"0.0", "warm"}]

\* a client calls the deployed forecast service
E_ServiceRun ==
  /\ notebook = "energy" /\ service.state = "Healthy"
  /\ \E r \in EnergyRequests :
       /\ request' = r
       /\ response' = EnergyRun(r.timestamp, r.precip, r.temp)
  /\ UNCHANGED << kernel, frames, pc, error, model_id, script, image,
                  service >>

\* model = local_run.register_model(description=description, tags=tags)
M_RegisterModel ==
  /\ notebook = "maintenance" /\ pc = "register_model"
  /\ model_id' \in ModelIds
  /\ pc' = "write_script"
  /\ UNCHANGED << kernel, frames, error, script, image, service, call >>

\* %%writefile score.py
M_WriteScript ==
  /\ notebook = "maintenance" /\ pc = "write_script"
  /\ script' = ScorePy
  /\ pc' = "substitute"
  /\ UNCHANGED << kernel, frames, error, model_id, image, service, call >>

\* cefw.write(content.replace('<<modelid>>', local_run.model_id))
M_Substitute ==
  /\ notebook = "maintenance" /\ pc = "substitute"
  /\ script' = Replace(script, Placeholder, model_id)
  /\ pc' = "deploy"
  /\ UNCHANGED << kernel, frames, error, model_id, image, service, call >>

\* service = Webservice.deploy_from_model(models=[model],
\*                                        image_config=image_config, ...)
\* service.wait_for_deployment(show_output=True)
\* deploy_from_model builds the image from score.py and deploys it
M_Deploy ==
  /\ notebook = "maintenance" /\ pc = "deploy"
  /\ image' = BuildImage(script, model_id)
  /\ service' = StartService(image')
  /\ IF service'.state = "Healthy"
     THEN pc' = "test_service" /\ UNCHANGED error
     ELSE pc' = "raised" /\ error' = "WebserviceException"
  /\ UNCHANGED << kernel, frames, model_id, script, call >>

\* df[lo:hi].values.tolist(): the rows at positions lo..hi-1 (from 0), each
\* the list of its values in column order
SliceToList(df, lo, hi) ==
  [k \in 1..(Min(hi, Len(df.rows)) - Min(lo, Len(df.rows))) |->
     [j \in 1..Len(df.cols) |-> df.rows[lo + k].vals[df.cols[j]]]]

\* input_data = "{\"data\": " + str(X_test[1:2].values.tolist()) + "}"
\* resp = requests.post(service.scoring_uri, input_data, headers=headers)
M_TestService ==
  /\ notebook = "maintenance" /\ pc = "test_service"
  /\ request' = Body(SliceToList(X_test, 1, 2))
  /\ response' = ScoreRun(request')
  /\ pc' = "delete_service"
  /\ UNCHANGED << kernel, frames, error, model_id, script, image, service >>

\* service.delete()
M_DeleteService ==
  /\ notebook = "maintenance" /\ pc = "delete_service"
  /\ service' = [service EXCEPT !.state = "Deleted"]
  /\ pc' = "done"
  /\ UNCHANGED << kernel, frames, error, model_id, script, image, call >>

\* rows a client sends: NFeatures numbers, or one number short
FeatureRow == [j \in 1..NFeatures |-> 0]
ShortRow == [j \in 1..(NFeatures - 1) |-> 0]

\* the bodies a client posts to the regression service
ScoreBodies ==
  {NotJson, NoDataKey}
    \cup { Body(rows) : rows \in SeqsUpTo({FeatureRow, ShortRow},
                                          MaxRequestRows) }

\* a client posts to the deployed regression service
M_ServiceRun ==
  /\ notebook = "maintenance" /\ service.state = "Healthy"
  /\ \E raw_data \in ScoreBodies :
       /\ request' = raw_data
       /\ response' = ScoreRun(raw_data)
  /\ UNCHANGED << kernel, frames, pc, error, model_id, script, image,
                  service >>

(* ----------------------------- the kernel ----------------------------- *)
\* what the split cell bound, once it has run without raising
SplitOutcome ==
  IF notebook = "maintenance"
     /\ pc \in {"automl_config", "submit"} \cup DeploySection
  THEN [done |-> TRUE, ind |-> split_ind,
        X_train |-> X_train, X_test |-> X_test,
        y_train |-> y_train, y_test |-> y_test]
  ELSE NoSplit

\* "Restart & Run All" of the maintenance notebook once the cells before
\* its Deploy section have run, or one of them has raised:
\* the namespace is cleared, the global generator is re-seeded from the
\* system, the input file is the same.  (A second run of the energy notebook
\* would repeat its first; it has no seeded step to compare.)
Restart ==
  /\ notebook = "maintenance"
  /\ pc \in {"register_model", "raised"}
  /\ ~rerun
  /\ rerun' = TRUE
  /\ np_random' \in Entropy(notebook)
  /\ prev_split' = SplitOutcome
  /\ pc' = FirstCell(notebook)
  /\ error' = ""
  /\ data' = NoFrame /\ train' = NoFrame /\ test' = NoFrame
  /\ train_new' = NoFrame
  /\ X_train' = NoFrame /\ X_valid' = NoFrame /\ X_test' = NoFrame
  /\ y_train' = <<>> /\ y_valid' = <<>> /\ y_test' = <<>> /\ y_pred' = <<>>
  /\ automl_config' = NoConfig
  /\ split_ind' = NoInd
  /\ model_id' = ""
  /\ request' = NoRequest
  /\ response' = NoResponse
  /\ UNCHANGED << notebook, model_outputs, header, csv, script, image,
                  service >>

Next ==
  \/ E_ReadCsv
  \/ E_SplitTrainTest
  \/ E_PrepareTest
  \/ E_SplitTrainValid
  \/ E_AutoMLConfig
  \/ E_Submit
  \/ E_Predict
  \/ E_CheckData
  \/ E_Metrics
  \/ M_ReadTrain
  \/ M_AssignRul
  \/ M_CreateTrainingData
  \/ M_TrainTestSplit
  \/ M_TrainTestSplitRaises
  \/ M_AutoMLConfig
  \/ M_Submit
  \/ Restart

Spec == Init /\ [][Next]_vars

(* ------------------ the notebooks with their Deploy section ---------- *)
\* the log of an engine file kept in order: unit 1's cycles 1..c1, then
\* unit 2's cycles 1..c2
Log(c1, c2) ==
  [i \in 1..(c1 + c2) |->
     [c \in Range(MaintCols) |->
        IF c = "unit" THEN (IF i <= c1 THEN 1 ELSE 2)
        ELSE IF c = "cycle" THEN (IF i <= c1 THEN i ELSE i - c1)
        ELSE 0]]

\* the files of the runs that go on to the Deploy section: every
\* nyc_energy.csv of up to MaxDeployRows records, every ordered engine log
DeployFiles(nb, h) ==
  IF nb = "maintenance"
  THEN { Log(c1, c2) : c1 \in 0..MaxCycle, c2 \in 0..MaxCycle }
  ELSE Files(nb, h, MaxDeployRows, 0)

DeployInit ==
  /\ notebook \in {"energy", "maintenance"}
  /\ pc = FirstCell(notebook)
  /\ rerun = FALSE
  /\ np_random \in Entropy(notebook)
  /\ model_outputs = Predictions
  /\ header \in Headers(notebook)
  /\ csv \in DeployFiles(notebook, header)
  /\ prev_split = NoSplit
  /\ script = NoScript
  /\ image = NoImage
  /\ service = NoService
  /\ Namespace0

\* "Run All" of a whole notebook, and the clients of its service
DeployNext ==
  \/ E_ReadCsv
  \/ E_SplitTrainTest
  \/ E_PrepareTest
  \/ E_SplitTrainValid
  \/ E_AutoMLConfig
  \/ E_Submit
  \/ E_Predict
  \/ E_CheckData
  \/ E_Metrics
  \/ E_RegisterModel
  \/ E_WriteScript
  \/ E_Substitute
  \/ E_CreateImage
  \/ E_Deploy
  \/ E_ServiceRun
  \/ M_ReadTrain
  \/ M_AssignRul
  \/ M_CreateTrainingData
  \/ M_TrainTestSplit
  \/ M_TrainTestSplitRaises
  \/ M_AutoMLConfig
  \/ M_Submit
  \/ M_RegisterModel
  \/ M_WriteScript
  \/ M_Substitute
  \/ M_Deploy
  \/ M_TestService
  \/ M_DeleteService
  \/ M_ServiceRun

DeploySpec == DeployInit /\ [][DeployNext]_vars

(* ------------- the energy notebook on distinguishable values ---------- *)
\* records of the test side whose demands can be told apart
TestSideRecords ==
  [timeStamp : {ToDatetime(2017, 2, 1)}, demand : Demands \cup {6},
   temp : Temps]

\* the energy notebook from its first cell, on a file of up to MaxPairs test
\* records, with a model whose predictions can be told apart
CheckInit ==
  /\ notebook = "energy"
  /\ pc = FirstCell(notebook)
  /\ rerun = FALSE
  /\ np_random \in Entropy(notebook)
  /\ model_outputs = Predictions \cup {8}
  /\ header = EnergyCols
  /\ csv \in SeqsUpTo(TestSideRecords, MaxPairs)
  /\ prev_split = NoSplit
  /\ script = NoScript
  /\ image = NoImage
  /\ service = NoService
  /\ Namespace0

\* the data cells of the energy notebook
CheckNext ==
  \/ E_ReadCsv
  \/ E_SplitTrainTest
  \/ E_PrepareTest
  \/ E_SplitTrainValid
  \/ E_AutoMLConfig
  \/ E_Submit
  \/ E_Predict
  \/ E_CheckData
  \/ E_Metrics

CheckSpec == CheckInit /\ [][CheckNext]_vars
(* ======================= properties of the notebooks ================== *)
\* the maintenance notebook has run the assignrul cell
Labelled ==
  /\ notebook = "maintenance"
  /\ pc \in {"create_training_data", "train_test_split", "automl_config",
             "submit", "raised"} \cup DeploySection

\* the cycles of the records of `train` that share row i's unit
CyclesOfUnit(i) ==
  { train.rows[j].vals["cycle"] :
      j \in { k \in 1..Len(train.rows) :
                train.rows[k].vals["unit"] = train.rows[i].vals["unit"] } }

\* C1: after train.groupby('unit').apply(assignrul) every record's rul is
\* the largest cycle among the records of its unit minus its own cycle
\* (and the record is otherwise the input record, in the input's order).
C1_RulIsLastCycleMinusCycle ==
  Labelled =>
    /\ Len(train_new.rows) = Len(train.rows)
    /\ \A i \in 1..Len(train.rows) :
         /\ train_new.rows[i].idx = train.rows[i].idx
         /\ \A c \in Range(MaintCols) :
              train_new.rows[i].vals[c] = train.rows[i].vals[c]
         /\ train_new.rows[i].vals["rul"] =
              SetMax(CyclesOfUnit(i)) - train.rows[i].vals["cycle"]

\* C1 witness: unit 1 with cycles [1,2] and unit 2 with cycle [1] are
\* labelled [1,0] and [0]
C1_Witness ==
  /\ Labelled
  /\ Len(train_new.rows) = 3
  /\ Column(train_new, "unit") = << 1, 1, 2 >>
  /\ Column(train_new, "cycle") = << 1, 2, 1 >>
  /\ Column(train_new, "rul") = << 1, 0, 0 >>

\* C2: in the labelled frame the record with the largest cycle of each unit
\* has rul 0 (a unit with a single record included), and within a unit rul
\* never increases as cycle increases.
C2_ZeroAtLastCycleAndNonIncreasing ==
  Labelled =>
    \A i \in 1..Len(train_new.rows) :
      LET ri == train_new.rows[i].vals
      IN  /\ (\A j \in 1..Len(train_new.rows) :
                train_new.rows[j].vals["unit"] = ri["unit"]
                  => train_new.rows[j].vals["cycle"] <= ri["cycle"])
               => ri["rul"] = 0
          /\ \A j \in 1..Len(train_new.rows) :
               LET rj == train_new.rows[j].vals
               IN  (rj["unit"] = ri["unit"] /\ ri["cycle"] <= rj["cycle"])
                     => ri["rul"] >= rj["rul"]

\* C2 witness: a labelled frame with a single-record unit (rul 0) and a
\* unit of two records whose rul goes down from 1 to 0
C2_Witness ==
  /\ Labelled
  /\ Column(train_new, "unit") = << 2, 1, 1 >>
  /\ Column(train_new, "cycle") = << 2, 1, 2 >>
  /\ Column(train_new, "rul") = << 0, 1, 0 >>

\* the energy notebook has run the train/test split cell
SplitAtFeb ==
  /\ notebook = "energy"
  /\ pc \notin {"read_csv", "split_train_test"}

\* C3: after the split at '2017-02-01' every train record's timeStamp is
\* before the cutover and every test record's timeStamp is at or after it.
C3_TemporalSplitSides ==
  SplitAtFeb =>
    /\ \A i \in 1..Len(train.rows) :
         train.rows[i].vals["timeStamp"] < ToDatetime(2017, 2, 1)
    /\ \A i \in 1..Len(test.rows) :
         test.rows[i].vals["timeStamp"] >= ToDatetime(2017, 2, 1)

\* C3 witness: a record of 2017-01-01 is in train, a record dated exactly
\* 2017-02-01 and a record of 2017-03 are in test
C3_Witness ==
  /\ SplitAtFeb
  /\ \E i \in 1..Len(train.rows) :
       train.rows[i].vals["timeStamp"] = ToDatetime(2017, 1, 1)
  /\ \E i \in 1..Len(test.rows) :
       test.rows[i].vals["timeStamp"] = ToDatetime(2017, 2, 1)
  /\ \E i \in 1..Len(test.rows) :
       test.rows[i].vals["timeStamp"] = ToDatetime(2017, 3, 1)

\* the energy notebook has run the cell that takes X_train and X_valid
\* (the run was not stopped before it)
ValidSplitDone ==
  /\ notebook = "energy"
  /\ pc \notin {"read_csv", "split_train_test", "prepare_test",
                 "split_train_valid"}
  /\ error # KeyErrorDemand

\* how many rows of df carry index label x
Occurrences(df, x) ==
  Cardinality({ i \in 1..Len(df.rows) : df.rows[i].idx = x })

\* the rows of `whole` are each in exactly one of a and b, and a and b hold
\* nothing else
Partitions(whole, a, b) ==
  /\ \A x \in Indexes(whole) : Occurrences(a, x) + Occurrences(b, x) = 1
  /\ Indexes(a) \cup Indexes(b) \subseteq Indexes(whole)
  /\ Len(a.rows) + Len(b.rows) = Len(whole.rows)

\* how many times position p occurs in an index array
Count(ind, p) == Cardinality({ k \in 1..Len(ind) : ind[k] = p })

\* the maintenance notebook has run the train_test_split cell
RandomSplitDone ==
  /\ notebook = "maintenance"
  /\ pc \in {"automl_config", "submit"} \cup DeploySection

ColsOf(df) ==
  Range(df.cols) \cup UNION { DOMAIN df.rows[i].vals : i \in 1..Len(df.rows) }

\* the feature matrices of the namespace and those given to AutoMLConfig
FeatureMatrices ==
  { X_train, X_valid, X_test, automl_config.X, automl_config.X_valid }

\* C6 as stated: no feature matrix holds the grouping column ('unit'), the
\* ordering column ('cycle' / 'timeStamp') or the target ('rul' / 'demand').
C6_NoKeyColumnsAsStated ==
  \A m \in FeatureMatrices :
    ColsOf(m) \cap {"unit", "cycle", "timeStamp", "rul", "demand"} = {}

\* C6 (amended): no feature matrix holds 'unit', 'cycle' or the target
\* ('rul' / 'demand'); in the forecast scenario X_test, and the X and
\* X_valid given to AutoMLConfig, do hold the ordering column 'timeStamp',
\* which AutoMLConfig is told is the time column.
C6_NoGroupCycleTargetColumns ==
  /\ \A m \in FeatureMatrices :
       ColsOf(m) \cap {"unit", "cycle", "rul", "demand"} = {}
  /\ (notebook = "energy" /\ error # KeyErrorDemand
        /\ pc \notin {"read_csv", "split_train_test", "prepare_test"})
       => "timeStamp" \in Range(X_test.cols)
  /\ (notebook = "energy" /\ error # KeyErrorDemand
        /\ pc \in {"submit", "predict", "check_data", "metrics", "raised"}
                   \cup DeploySection)
       => /\ automl_config.time_column_name = "timeStamp"
          /\ "timeStamp" \in Range(automl_config.X.cols)
          /\ "timeStamp" \in Range(automl_config.X_valid.cols)
          /\ automl_config.X = X_train
          /\ automl_config.X_valid = X_valid
  /\ (notebook = "maintenance" /\ pc \in {"submit"} \cup DeploySection)
       => /\ automl_config.X = X_train
          /\ Len(automl_config.X.cols) = 24

\* C6 witness: the forecast trainer is handed an X with at least one row
\* whose columns are timeStamp and temp
C6_Witness ==
  /\ notebook = "energy"
  /\ pc = "submit"
  /\ Len(automl_config.X.rows) >= 1
  /\ Range(automl_config.X.cols) = {"timeStamp", "temp"}
  /\ ColsOf(automl_config.X) = {"timeStamp", "temp"}

\* C7: two runs of the notebook on the same file give the same random
\* split: the same index arrays, the same rows and targets in train and in
\* test.
C7_SameSeedSamePartition ==
  (RandomSplitDone /\ rerun /\ prev_split.done) =>
    /\ split_ind = prev_split.ind
    /\ X_train = prev_split.X_train
    /\ X_test = prev_split.X_test
    /\ y_train = prev_split.y_train
    /\ y_test = prev_split.y_test

\* C7 witness: a second run has split three records, as the first run did
C7_Witness ==
  /\ RandomSplitDone
  /\ rerun
  /\ prev_split.done
  /\ Len(X_train.rows) = 2
  /\ Len(X_test.rows) = 1
  /\ y_train # << y_test[1], y_test[1] >>

\* size is within one record of num/10 of n
WithinOneRecord(size, num, n) ==
  /\ 10 * size - num * n <= 10
  /\ num * n - 10 * size <= 10

\* C8: for N >= 2 records and test fraction 0.3 the test subset's size is
\* within one record of 0.3*N and the train subset's within one of 0.7*N:
\* for the subsets the split cell returns, and for the sizes the split cell
\* is about to compute, on every N in 2..MaxSamples.
C8_SubsetSizesWithinOne ==
  /\ (RandomSplitDone /\ Len(train_new.rows) >= 2) =>
       /\ WithinOneRecord(Len(X_test.rows), 3, Len(train_new.rows))
       /\ WithinOneRecord(Len(X_train.rows), 7, Len(train_new.rows))
       /\ Len(y_test) = Len(X_test.rows)
       /\ Len(y_train) = Len(X_train.rows)
  /\ (notebook = "maintenance" /\ pc = "train_test_split") =>
       \A n \in 2..MaxSamples :
         /\ WithinOneRecord(NTest(n), 3, n)
         /\ WithinOneRecord(NTrain(n), 7, n)

\* C8 witness: three records are split into one test and two train records
C8_Witness ==
  /\ RandomSplitDone
  /\ Len(train_new.rows) = 3
  /\ Len(X_test.rows) = 1
  /\ Len(X_train.rows) = 2

\* the check cell has filtered y_test and y_pred
Filtered ==
  /\ notebook = "energy"
  /\ pc \in {"metrics"} \cup DeploySection

\* C9: after the NaN clean-up y_test and y_pred have the same length and
\* neither holds a NaN.
C9_FilteredEqualLengthNoNaN ==
  Filtered =>
    /\ Len(y_test) = Len(y_pred)
    /\ \A i \in 1..Len(y_test) : y_test[i] # NaN
    /\ \A i \in 1..Len(y_pred) : y_pred[i] # NaN

\* C9 witness: of three test records one had a missing demand; the clean-up
\* left fewer pairs than test records, and at least one
C9_Witness ==
  /\ Filtered
  /\ Len(X_test.rows) = 3
  /\ \E i \in 1..Len(data.rows) : data.rows[i].vals["demand"] = NaN
  /\ Len(y_test) >= 1
  /\ Len(y_test) < 3

\* C10: when y_test and y_pred differ in length, or are empty, the check
\* cell raises: it leaves y_test and y_pred as they are, and after the error
\* neither the check nor the metric cell runs in that run.
C10_CheckRaisesBeforeFiltering ==
  [][ /\ (notebook = "energy" /\ pc = "check_data"
            /\ (Len(y_test) # Len(y_pred) \/ Len(y_test) = 0))
         => /\ pc' = "raised"
            /\ error' # ""
            /\ y_test' = y_test
            /\ y_pred' = y_pred
      /\ pc = "raised" =>
           pc' \notin {"check_data", "metrics"} \cup DeploySection
    ]_vars

\* C10 witness: the check cell has raised on a y_pred shorter than y_test,
\* and y_test still holds its NaN
C10_Witness ==
  /\ notebook = "energy"
  /\ pc = "raised"
  /\ error = "ValueError: not equal length"
  /\ Len(y_pred) < Len(y_test)
  /\ \E i \in 1..Len(y_test) : y_test[i] = NaN

\* C11 (as stated): whatever a scoring script's run is given, it returns a
\* JSON object {"result": [...]} or {"error": "<message>"}, and no exception
\* leaves it.
C11_RunReturnsResultOrError ==
  response # NoResponse =>
    /\ response.kind = "object"
    /\ response.key \in {"result", "error"}

\* a step of one run of the notebook (not the restart of its kernel)
SameRun == rerun' = rerun

\* `train` has been derived: by the split at 2017-02-01, or read from the
\* engine file
TrainDerived ==
  \/ SplitAtFeb
  \/ notebook = "maintenance" /\ pc # "read_train"

\* b is a with column c removed: same rows, same index, same other values
SameButColumn(a, b, c) ==
  /\ Range(b.cols) = Range(a.cols) \ {c}
  /\ Len(b.rows) = Len(a.rows)
  /\ \A i \in 1..Len(a.rows) :
       /\ b.rows[i].idx = a.rows[i].idx
       /\ DOMAIN b.rows[i].vals = (DOMAIN a.rows[i].vals) \ {c}
       /\ \A x \in DOMAIN b.rows[i].vals :
            b.rows[i].vals[x] = a.rows[i].vals[x]

\* C12 as stated: no cell changes data once it is loaded, nor train, test,
\* X_train or X_valid once the cell that derives them has run.
C12_NoEntityMutatedAsStated ==
  [][ SameRun =>
        /\ (notebook = "energy" /\ pc # "read_csv") => data' = data
        /\ TrainDerived => train' = train
        /\ SplitAtFeb => test' = test
        /\ (ValidSplitDone \/ RandomSplitDone) =>
             (X_train' = X_train /\ X_valid' = X_valid)
    ]_vars

\* C12 (amended): no cell changes data, train, X_train or X_valid after
\* the cell that derives them; test is changed by one cell only, the cell
\* after the split, which removes its 'demand' column in place (X_test is
\* that frame) and leaves its rows, index and other columns as they were.
C12_OnlyTestLosesItsTargetColumn ==
  [][ SameRun =>
        /\ (notebook = "energy" /\ pc # "read_csv") => data' = data
        /\ TrainDerived => train' = train
        /\ (ValidSplitDone \/ RandomSplitDone) =>
             (X_train' = X_train /\ X_valid' = X_valid)
        /\ SplitAtFeb =>
             \/ test' = test
             \/ /\ pc = "prepare_test"
                /\ SameButColumn(test, test', "demand")
                /\ X_test' = test'
    ]_vars

\* C12 witness: the cell after the split has removed 'demand' from a test
\* frame with a row; data still has the column
C12_Witness ==
  /\ notebook = "energy"
  /\ pc = "split_train_valid"
  /\ Len(test.rows) >= 1
  /\ ~HasColumn(test, "demand")
  /\ HasColumn(data, "demand")
  /\ X_test = test

\* X and y are the records of data dated from lo up to (not including) hi,
\* with 'demand' taken out of X into y: one y per row of X, the i-th y the
\* demand of the i-th row's record, the other columns as in data
TargetExtracted(X, y, lo, hi) ==
  /\ X.cols = << "timeStamp", "temp" >>
  /\ Len(y) = Len(X.rows)
  /\ Indexes(X) = { data.rows[i].idx :
                     i \in { k \in 1..Len(data.rows) :
                               /\ data.rows[k].vals["timeStamp"] >= lo
                               /\ data.rows[k].vals["timeStamp"] < hi } }
  /\ Cardinality(Indexes(X)) = Len(X.rows)
  /\ \A i \in 1..Len(X.rows) :
       LET r == RowWithIdx(data, X.rows[i].idx)
       IN  /\ y[i] = r.vals["demand"]
           /\ DOMAIN X.rows[i].vals = {"timeStamp", "temp"}
           /\ \A x \in {"timeStamp", "temp"} : X.rows[i].vals[x] = r.vals[x]

\* the pop of the test cell has run and y_test has not been filtered yet
TestPopped ==
  /\ notebook = "energy"
  /\ pc \in {"split_train_valid", "automl_config", "submit", "predict",
             "check_data"}

\* C13: after test.pop('demand'), and after the pops of the train / valid
\* cell, y holds one value per row of X, the i-th the demand of the i-th
\* row's record, and X holds the record's other columns unchanged (y_test is
\* compared until the check cell filters it).
C13_TargetExtractedAndRemoved ==
  /\ TestPopped =>
       /\ TargetExtracted(X_test, y_test, CutoverTest, ToDatetime(9999, 1, 1))
       /\ test = X_test
  /\ ValidSplitDone =>
       /\ TargetExtracted(X_train, y_train, 0, ToDatetime(2017, 1, 1))
       /\ TargetExtracted(X_valid, y_valid, ToDatetime(2017, 1, 1),
                          ToDatetime(2017, 2, 1))

\* C13 witness: each subset holds one record; the test record's demand is 5,
\* the train record's demand is missing
C13_Witness ==
  /\ notebook = "energy"
  /\ pc = "automl_config"
  /\ Len(X_test.rows) = 1 /\ y_test = << 5 >>
  /\ Len(X_train.rows) = 1 /\ y_train = << NaN >>
  /\ Len(X_valid.rows) = 1 /\ y_valid = << 5 >>

C15_ChronologicalSubsets ==
  ValidSplitDone =>
    /\ \A i \in 1..Len(X_train.rows) :
         X_train.rows[i].vals["timeStamp"] < ToDatetime(2017, 1, 1)
    /\ \A i \in 1..Len(X_valid.rows) :
         /\ X_valid.rows[i].vals["timeStamp"] >= ToDatetime(2017, 1, 1)
         /\ X_valid.rows[i].vals["timeStamp"] < ToDatetime(2017, 2, 1)
    /\ \A t \in 1..Len(X_test.rows) :
         /\ \A i \in 1..Len(X_train.rows) :
              X_test.rows[t].vals["timeStamp"]
                > X_train.rows[i].vals["timeStamp"]
         /\ \A i \in 1..Len(X_valid.rows) :
              X_test.rows[t].vals["timeStamp"]
                > X_valid.rows[i].vals["timeStamp"]
    /\ test = X_test

\* C15 witness: a record of 2016-12-31 in X_train, one of 2017-01-01 in
\* X_valid, one of 2017-02-01 in X_test
C15_Witness ==
  /\ ValidSplitDone
  /\ Len(X_train.rows) = 1
  /\ X_train.rows[1].vals["timeStamp"] = ToDatetime(2016, 12, 31)
  /\ Len(X_valid.rows) = 1
  /\ X_valid.rows[1].vals["timeStamp"] = ToDatetime(2017, 1, 1)
  /\ Len(X_test.rows) = 1
  /\ X_test.rows[1].vals["timeStamp"] = ToDatetime(2017, 2, 1)

\* X holds feature columns only: none of unit, cycle and rul
FeaturesOnly(X) ==
  /\ Len(X.cols) = NFeatures
  /\ ColsOf(X) \cap {"unit", "cycle", "rul"} = {}

\* C16 as stated: in the maintenance notebook the labels are derived before
\* the split, and the feature matrix (without unit, cycle and target) is
\* extracted after the split, never before it.
C16_FeatureMatrixAfterSplitAsStated ==
  notebook = "maintenance" =>
    /\ split_ind # NoInd => HasColumn(train_new, "rul")
    /\ FeaturesOnly(X_train) => split_ind # NoInd

\* C16 (amended): the maintenance notebook runs Dataset -> LabeledDataset ->
\* FeatureMatrix -> Split: the labels are derived first; the feature matrix
\* and the target vector are then extracted from the whole labelled frame;
\* the split comes last and divides that matrix and vector, not the frame.
C16_LabelThenFeaturesThenSplit ==
  notebook = "maintenance" =>
    /\ pc = "create_training_data" =>
         /\ X_train = NoFrame /\ y_train = <<>> /\ split_ind = NoInd
         /\ Len(train_new.rows) = Len(train.rows)
         /\ train.rows # <<>> => HasColumn(train_new, "rul")
    /\ pc = "train_test_split" =>
         /\ split_ind = NoInd /\ X_test = NoFrame /\ y_test = <<>>
         /\ FeaturesOnly(X_train)
         /\ Len(X_train.rows) = Len(train_new.rows)
         /\ Len(y_train) = Len(train_new.rows)
         /\ \A i \in 1..Len(train_new.rows) :
              y_train[i] = train_new.rows[i].vals["rul"]
    /\ split_ind # NoInd =>
         /\ FeaturesOnly(X_train) /\ FeaturesOnly(X_test)
         /\ Len(X_train.rows) + Len(X_test.rows) = Len(train_new.rows)
         /\ Len(train_new.cols) = Len(MaintCols) + 1
         /\ \A k \in 1..Len(split_ind.train) :
              y_train[k] = train_new.rows[split_ind.train[k]].vals["rul"]
         /\ \A k \in 1..Len(split_ind.test) :
              y_test[k] = train_new.rows[split_ind.test[k]].vals["rul"]

\* C16 witness: the feature matrix and the targets [1,0,0] of three
\* labelled records are extracted, and the split has not run yet
C16_Witness ==
  /\ notebook = "maintenance"
  /\ pc = "train_test_split"
  /\ FeaturesOnly(X_train)
  /\ Len(X_train.rows) = 3
  /\ y_train = << 1, 0, 0 >>
  /\ split_ind = NoInd

\* C17: in both notebooks a script without the placeholder exists only once
\* the model is registered, and an image only once the script has been
\* substituted: the image's script holds no '<<modelid>>', its init asks
\* for the registered model's id, which is the model the image was built
\* with, and the service started from it has loaded that model.
C17_RegisterSubstituteThenImage ==
  /\ (script # NoScript /\ Placeholder \notin Range(script)) =>
       /\ model_id \in ModelIds
       /\ ModelNameOf(script) = model_id
  /\ image # NoImage =>
       /\ model_id \in ModelIds
       /\ Placeholder \notin Range(image.script)
       /\ ModelNameOf(image.script) = model_id
       /\ image.models = {model_id}
       /\ image.script = script
  /\ service # NoService =>
       /\ image # NoImage
       /\ service.state \in {"Healthy", "Deleted"}
       /\ service.model = model_id
  /\ pc \in {"register_model", "write_script"} =>
       /\ image = NoImage
       /\ (script = NoScript \/ Placeholder \in Range(script))

\* C17 witness: the energy notebook has built its image from the script
\* that names the second model id, and has not deployed it yet
C17_Witness ==
  /\ notebook = "energy"
  /\ pc = "deploy"
  /\ image # NoImage
  /\ model_id = "AutoML5e6f7a8b9best"
  /\ ModelNameOf(image.script) = "AutoML5e6f7a8b9best"
  /\ service = NoService

\* C18 (as stated): when a notebook's run is done, the web service it
\* deployed no longer exists.
C18_ServiceDeletedWhenDone ==
  pc = "done" => service.state \in {"None", "Deleted"}

\* the positions of the pairs neither element of which is NaN
KeptPositions(yt, yp) ==
  { i \in 1..Len(yt) : yt[i] # NaN /\ yp[i] # NaN }

\* the k-th smallest member of a set of positions
KthOf(S, k) == CHOOSE i \in S : Cardinality({ j \in S : j <= i }) = k

\* C19: the clean-up of the check cell keeps the pair (y_test[i], y_pred[i])
\* exactly when neither element is NaN; the k-th kept pair is at index k of
\* both filtered sequences, in the order of the input.
C19_PairsKeptAlignedInOrder ==
  [][ (notebook = "energy" /\ pc = "check_data" /\ pc' = "metrics") =>
        LET kept == KeptPositions(y_test, y_pred)
        IN  /\ Len(y_test') = Cardinality(kept)
            /\ Len(y_pred') = Cardinality(kept)
            /\ \A k \in 1..Cardinality(kept) :
                 /\ y_test'[k] = y_test[KthOf(kept, k)]
                 /\ y_pred'[k] = y_pred[KthOf(kept, k)]
    ]_vars

\* C19 witness: of three pairs, the second with a missing demand, the first
\* (6,8) and the third (5,7) are kept, in that order
C19_Witness ==
  /\ notebook = "energy"
  /\ pc = "metrics"
  /\ Column(data, "demand") = << 6, NaN, 5 >>
  /\ y_test = << 6, 5 >>
  /\ y_pred = << 8, 7 >>

\* C20 (as stated): when the check cell completes without raising, the
\* y_test and y_pred handed to the metric functions hold at least one
\* element.
C20_MetricInputsNonEmpty ==
  (notebook = "energy" /\ pc = "metrics") =>
    /\ Len(y_test) >= 1
    /\ Len(y_pred) >= 1

\* a request of the forecast service whose values are of the kinds the
\* service's schema declares: a date and time, and two numbers
WellFormedRequest(r) ==
  /\ r.timestamp = "2017-02-01 00:00:00"
  /\ r.precip = "0.0"
  /\ r.temp = "0.0"

\* C21 (as stated): once init has loaded the model, a run of
\* score_energy_demand.py on well-formed values returns {"result": ...} with
\* the model's prediction for these values, and {"error": ...} is returned
\* only for a malformed input.
C21_WellFormedRunReturnsResult ==
  (notebook = "energy" /\ service.state = "Healthy" /\ request # NoRequest) =>
    /\ WellFormedRequest(request) =>
         response = ResultObject(<< FittedModel(<< request.timestamp,
                                                   request.precip,
                                                   request.temp >>) >>)
    /\ response.key = "error" => ~WellFormedRequest(request)

\* a body {"data": rows} of k >= 1 rows, each of the n features the model
\* was fitted on
RowsOfFeatures(raw_data) ==
  /\ raw_data.json
  /\ raw_data.has_data
  /\ Len(raw_data.data) >= 1
  /\ \A i \in DOMAIN raw_data.data : Len(raw_data.data[i]) = NFeatures

\* C22 (as stated): for a body {"data": rows} of k >= 1 rows of n features,
\* score.py's run hands the model's predict the k-by-n matrix of these rows
\* in their order, and the response lists the k predictions in input order.
C22_OnePredictionPerRow ==
  (notebook = "maintenance" /\ request # NoRequest) =>
    (RowsOfFeatures(request) =>
       /\ Reshape1(request.data) = request.data
       /\ response.kind \in {"array", "object"}
       /\ response.items = [i \in DOMAIN request.data |->
                              FittedModel(request.data[i])])
====
